---- MODULE Spec2Model ----
(***************************************************************************)
(* Model of langchainplus_sdk/run_trees.py: the RunTree node counters and  *)
(* the thread-pool submission channel (_ensure_thread_pool, post, patch,   *)
(* await_all_runs); and of the run_tree decorator of run_helpers.py.       *)
(*                                                                         *)
(* TreeSpec : one tree, grown by create_child and finalized by end.        *)
(* RunSpec  : a small tree with all the fields end and create_child set.  *)
(* ChanSpec : application threads calling post / patch / await_all_runs    *)
(*            statement by statement, and the executors' worker threads.   *)
(* WrapSpec : a thread calling run_tree-decorated functions               *)
(*            (run_helpers.py), beside other users of the channel.         *)
(* PaySpec  : one thread building a tree and posting / patching its nodes, *)
(*            with the keyword arguments that reach Transport.             *)
(* ExtraSpec, SerSpec, StackSpec : the extra mapping of a decorated call,  *)
(*            the Serializer, and nested decorated calls on one thread.    *)
(* SuiteSpec: threads calling tests decorated with @unit                   *)
(*            (langsmith/_testing.py), and the workers of the suites.      *)
(***************************************************************************)
EXTENDS Integers, Sequences, FiniteSets, TLC

VARIABLES
    \* ---- RunTree objects (run_trees.py:35-51) ----
    runs,                   \* ids of the RunTree objects constructed so far
    parent_run,             \* run -> parent run id, or NoRun
    child_runs,             \* run -> sequence of child run ids
    execution_order,        \* run -> int
    child_execution_order,  \* run -> int
    end_time,               \* run -> None or a time
    outputs,                \* run -> None, EmptyDict or a dict
    error,                  \* run -> None or a string
    session_name,           \* run -> str
    session_id,             \* run -> None or an id
    client,                 \* run -> the LangChainPlusClient it is bound to
    ended,                  \* history: runs on which end() has been called
    \* ---- submission channel (run_trees.py:16-32, 119-139) ----
    pool,                   \* _THREAD_POOL_EXECUTOR: NoExecutor or an id
    executors,              \* number of ThreadPoolExecutor objects created
    shut,                   \* executor -> shutdown() has been called
    queue,                  \* executor -> work queue, a sequence of <<t, k>>
    running,                \* executor -> the item its worker runs, or Idle
    pc,                     \* thread -> statement it is at
    executor,               \* thread -> its local `executor` / the pool it joins
    calls,                  \* thread -> number of post/patch/await calls begun
    kind,                   \* thread -> sequence of the kinds of its calls
    status,                 \* thread -> sequence of the states of its calls
    pending_at_call,        \* thread -> items queued or running when its
                            \*           current await_all_runs call began
    \* ---- calls of run_tree-decorated functions (run_helpers.py:31-87),
    \*      made by the traced thread ----
    frames,                 \* the wrapper calls in progress, innermost last:
                            \* [run |-> child_run, at |-> where the wrapper is]
    wcalls,                 \* number of wrapper calls begun
    type_errors,            \* number of wrapper calls that raised TypeError
    func_result,            \* run -> what the wrapped function did
    wrap_result,            \* run -> what the wrapper call did
    post_call,              \* run -> number of the thread's call that is
                            \*        child_run.post(), 0 if none
    patch_call,             \* run -> likewise for child_run.patch()
    \* ---- the keyword arguments handed to Transport ----
    call_arg,               \* the node, and the exclude_child_runs flag, of
                            \* the post or patch call in progress
    payload,                \* item -> the keyword arguments given to
                            \*         executor.submit
    delivered,              \* item -> the keyword arguments the worker
                            \*         called Transport with
    ended_at_dispatch,      \* item -> the nodes that were ended when the
                            \*         worker called Transport (history)
    \* ---- the extra mapping of a decorated call (run_helpers.py:27-71) ----
    decorator_extra,        \* the `extra` argument of run_tree
    extra_outer,            \* run_tree's local of that name
    call_extra,             \* the `extra` argument of the wrapper call
    run_extra,              \* the extra field of the run the wrapper made
    \* ---- the Serializer (spec section 4.1) ----
    ser_in,                 \* the value given to the Serializer
    ser_out,                \* what it gave back, or that it raised
    \* ---- the test suites of langsmith/_testing.py ----
    instances,              \* _LangSmithTestSuite._instances: None or a
                            \* mapping test-suite name -> suite
    lock,                   \* the thread that holds _LangSmithTestSuite._lock
    suites,                 \* number of _LangSmithTestSuite objects made
    dataset,                \* suite -> the name of its _dataset
    lookups,                \* name -> number of calls of _get_test_suite
    experiments,            \* name -> number of calls of _start_experiment
    suite_shut,             \* suite -> its _executor was shut down
    suite_queue,            \* suite -> the work queue of its _executor
    version,                \* suite -> _version
    datasets,               \* server: names of the datasets that exist
    examples,               \* server: ids of the examples that exist
    feedback,               \* server: test -> the feedback created for its
                            \* run id, each with what the worker had done
    synced,                 \* history: tests whose _sync_example has run
    tpc,                    \* thread -> where it is in _run_test
    tcall,                  \* thread -> the tracked test it runs
    test                    \* tracked test -> its function, the suite it
                            \* got, what the function did, what _run_test
                            \* did and its accepted submit_result calls

treeVars == <<runs, parent_run, child_runs, execution_order,
              child_execution_order, end_time, outputs, error, session_name,
              session_id, client, ended>>
chanVars == <<pool, executors, shut, queue, running, pc, executor, calls,
              kind, status, pending_at_call>>
wrapVars == <<frames, wcalls, type_errors, func_result, wrap_result,
              post_call, patch_call>>
payVars == <<call_arg, payload, delivered, ended_at_dispatch>>
extraVars == <<decorator_extra, extra_outer, call_extra, run_extra>>
serVars == <<ser_in, ser_out>>
suiteVars == <<instances, lock, suites, dataset, lookups, experiments,
               suite_shut, suite_queue, version, datasets, examples,
               feedback, synced, tpc, tcall, test>>
\* The specifications that use neither the tree nor the channel.
pureVars == <<extraVars, serVars, suiteVars>>
\* All but the tree and the channel.
restVars == <<wrapVars, payVars, pureVars>>
vars == <<treeVars, chanVars, restVars>>

----------------------------------------------------------------------------
\* Bounds of the model.
MaxRuns == 5          \* RunTree objects in the tree
MaxRootOrder == 3     \* largest child_execution_order given to the root
MaxFieldRuns == 3     \* RunTree objects in the tree of RunSpec
NumThreads == 2       \* application threads using the channel
MaxCalls == 3         \* calls the application threads make in all
MaxExecutors == 3     \* ThreadPoolExecutor objects ever created

None == "None"
NoRun == 0
EmptyDict == "{}"

Max(a, b) == IF a >= b THEN a ELSE b

----------------------------------------------------------------------------
\* RunTree

\* Arguments given to end() while the tree grows: all three are optional
\* and none of them reaches the counters, so the tree is grown with end().
EndArgs == { [outputs |-> None, error |-> None, end_time |-> None] }

\* utcnow()
Now == "now"

\* RunTree(...) as the root: execution_order keeps its default 1.
RootInit(ceo) ==
    /\ runs = {1}
    /\ parent_run = (1 :> NoRun)
    /\ child_runs = (1 :> <<>>)
    /\ execution_order = (1 :> 1)
    /\ child_execution_order = (1 :> ceo)
    /\ end_time = (1 :> None)
    /\ outputs = (1 :> None)
    /\ error = (1 :> None)
    /\ ended = {}

\* RunTree(...) as the root: its session and client arguments.
RootSession(name, id, cl) ==
    /\ session_name = (1 :> name)
    /\ session_id = (1 :> id)
    /\ client = (1 :> cl)

\* The defaults of the fields session_name (line 45) and session_id
\* (line 46), and the client made by the default factory (lines 49-51).
DefaultSessionName == "default"
DefaultClient == "client"

\* create_child, line 113 (mutant: session_name not passed on)
ChildSessionNameDefault(p) == DefaultSessionName

\* create_child, line 113: session_name=self.session_name
ChildSessionName(p) == session_name[p]

\* create_child, lines 98-115: session_id is not among the arguments, the
\* field keeps its default.
ChildSessionId(p) == None

\* create_child, line 114: client=self.client
ChildClient(p) == client[p]

\* create_child, line 116 (mutant: the child is put in front)
AttachChildInFront(kids, c) == <<c>> \o kids

\* create_child, line 116: self.child_runs.append(run)
AttachChild(kids, c) == Append(kids, c)

\* end, lines 70-73 (mutant: the argument is assigned even when None)
UpdatedAlways(field, n, arg) == [field EXCEPT ![n] = arg]

\* end, lines 70-73: `if arg is not None: self.field = arg`
Updated(field, n, arg) ==
    IF arg # None THEN [field EXCEPT ![n] = arg] ELSE field

\* create_child, line 96 (mutant: counts from the parent's own rank)
NextExecutionOrderFromRank(p) == execution_order[p] + 1

\* create_child, line 96 (mutant: forgets the + 1)
NextExecutionOrderNoStep(p) == child_execution_order[p]

\* create_child, line 96
NextExecutionOrder(p) == child_execution_order[p] + 1

\* end, lines 75-78 (mutant: assigns the child's value, no max)
PropagatedOrderNoMax(p, n) == child_execution_order[n]

\* end, lines 75-78 (mutant: takes the smaller value)
PropagatedOrderMin(p, n) ==
    IF child_execution_order[p] <= child_execution_order[n]
    THEN child_execution_order[p] ELSE child_execution_order[n]

\* end, lines 75-78
PropagatedOrder(p, n) ==
    Max(child_execution_order[p], child_execution_order[n])

RECURSIVE Ancestors(_)
Ancestors(n) ==
    IF parent_run[n] = NoRun THEN {}
    ELSE {parent_run[n]} \cup Ancestors(parent_run[n])

\* end, line 74 (mutant: cascades to the root)
PropagationTargetsCascade(n) == Ancestors(n)

\* end, line 74: the runs whose counter end(n) writes
PropagationTargets(n) ==
    IF parent_run[n] # NoRun THEN {parent_run[n]} ELSE {}

\* RunTree.create_child (outputs, error and end_time not passed, as in
\* run_helpers.py:52-59)
create_child(p) ==
    /\ p \in runs
    /\ LET c == Cardinality(runs) + 1
           order == NextExecutionOrder(p)
       IN /\ runs' = runs \cup {c}
          /\ parent_run' = parent_run @@ (c :> p)
          /\ child_runs' = [child_runs EXCEPT ![p] = AttachChild(@, c)]
                               @@ (c :> <<>>)
          /\ execution_order' = execution_order @@ (c :> order)
          /\ child_execution_order' = child_execution_order @@ (c :> order)
          /\ end_time' = end_time @@ (c :> Now)
          /\ outputs' = outputs @@ (c :> EmptyDict)
          /\ error' = error @@ (c :> None)
          /\ session_name' = session_name @@ (c :> ChildSessionName(p))
          /\ session_id' = session_id @@ (c :> ChildSessionId(p))
          /\ client' = client @@ (c :> ChildClient(p))
    /\ UNCHANGED <<ended, chanVars>>

\* RunTree.end
end(n, outputs_arg, error_arg, end_time_arg) ==
    /\ n \in runs
    /\ end_time' = [end_time EXCEPT
                      ![n] = IF end_time_arg # None THEN end_time_arg ELSE Now]
    /\ outputs' = Updated(outputs, n, outputs_arg)
    /\ error' = Updated(error, n, error_arg)
    /\ child_execution_order' =
          [m \in runs |-> IF m \in PropagationTargets(n)
                          THEN PropagatedOrder(m, n)
                          ELSE child_execution_order[m]]
    /\ ended' = ended \cup {n}
    /\ UNCHANGED <<runs, parent_run, child_runs, execution_order,
                   session_name, session_id, client, chanVars>>

----------------------------------------------------------------------------
\* No run_tree-decorated function has been called.
WrapIdle ==
    /\ frames = <<>>
    /\ wcalls = 0
    /\ type_errors = 0
    /\ func_result = <<>>
    /\ wrap_result = <<>>
    /\ post_call = <<>>
    /\ patch_call = <<>>

\* An `extra` argument: None, or a mapping.
NoExtra == [given |-> FALSE, map |-> <<>>]
Extra(f) == [given |-> TRUE, map |-> f]

\* No function has been decorated.
ExtraIdle ==
    /\ decorator_extra = NoExtra
    /\ extra_outer = <<>>
    /\ call_extra = NoExtra
    /\ run_extra = NoExtra

\* A value of the Serializer: its kind, its scalar content, and for a
\* container or record its keys (field names) and its elements; `fails`
\* says that reading the record's fields raises.
Val(k, p, ks, vs, f) ==
    [kind |-> k, prim |-> p, keys |-> ks, items |-> vs, fails |-> f]
Scalar(k, p) == Val(k, p, <<>>, <<>>, FALSE)
Null == Scalar("null", "null")
NotSerialized == Scalar("none", "")

\* The Serializer has not been called.
SerIdle ==
    /\ ser_in = Null
    /\ ser_out = NotSerialized

\* Test-suite names: the value of the TEST_SUITE environment variable or
\* "<repository>.<module of the test function>" (_get_test_suite_name).
SuiteNames == {"a", "b"}
NoThread == 0
NoSuite == 0
NoTest == 0

\* cls._instances before the first call of from_test: None
NoInstances == [given |-> FALSE, map |-> <<>>]

\* No decorated test was called: no suite, an empty server.
SuiteIdle ==
    /\ instances = NoInstances
    /\ lock = NoThread
    /\ suites = 0
    /\ dataset = <<>>
    /\ lookups = [n \in SuiteNames |-> 0]
    /\ experiments = [n \in SuiteNames |-> 0]
    /\ suite_shut = <<>>
    /\ suite_queue = <<>>
    /\ version = <<>>
    /\ datasets = {}
    /\ examples = {}
    /\ feedback = <<>>
    /\ synced = {}
    /\ tpc = <<>>
    /\ tcall = <<>>
    /\ test = <<>>

PureIdle == ExtraIdle /\ SerIdle /\ SuiteIdle

\* Nothing was handed to executor.submit.
NoArg == [run |-> NoRun, exclude_child_runs |-> TRUE]
PayIdle ==
    /\ call_arg = NoArg
    /\ payload = <<>>
    /\ delivered = <<>>
    /\ ended_at_dispatch = <<>>

ChanIdle ==
    /\ pool = 0
    /\ executors = 0
    /\ shut = <<>>
    /\ queue = <<>>
    /\ running = <<>>
    /\ pc = <<>>
    /\ executor = <<>>
    /\ calls = <<>>
    /\ kind = <<>>
    /\ status = <<>>
    /\ pending_at_call = <<>>

TreeInit ==
    /\ \E ceo \in 1..MaxRootOrder : RootInit(ceo)
    /\ RootSession(DefaultSessionName, None, DefaultClient)
    /\ ChanIdle
    /\ WrapIdle
    /\ PayIdle
    /\ PureIdle

TreeNext ==
    \/ \E p \in runs :
          /\ Cardinality(runs) < MaxRuns
          /\ create_child(p)
          /\ UNCHANGED restVars
    \/ \E n \in runs, a \in EndArgs :
          /\ end(n, a.outputs, a.error, a.end_time)
          /\ UNCHANGED restVars

TreeSpec == TreeInit /\ [][TreeNext]_vars

\* RunSpec: a small tree whose root is constructed with any session and
\* client and whose runs are ended with any of the arguments of end().
RootArgs ==
    { [session_name |-> DefaultSessionName, session_id |-> None,
       client |-> DefaultClient],
      [session_name |-> DefaultSessionName, session_id |-> "session-id",
       client |-> DefaultClient],
      [session_name |-> "session", session_id |-> "session-id",
       client |-> "client2"] }

RunEndArgs ==
    { [outputs |-> None, error |-> None, end_time |-> None],
      [outputs |-> "output", error |-> None, end_time |-> None],
      [outputs |-> None, error |-> "err", end_time |-> "time"] }

RunInit ==
    /\ RootInit(1)
    /\ \E a \in RootArgs :
          RootSession(a.session_name, a.session_id, a.client)
    /\ ChanIdle
    /\ WrapIdle
    /\ PayIdle
    /\ PureIdle

RunNext ==
    \/ \E p \in runs :
          /\ Cardinality(runs) < MaxFieldRuns
          /\ create_child(p)
          /\ UNCHANGED restVars
    \/ \E n \in runs, a \in RunEndArgs :
          /\ end(n, a.outputs, a.error, a.end_time)
          /\ UNCHANGED restVars

RunSpec == RunInit /\ [][RunNext]_vars

----------------------------------------------------------------------------
\* Submission channel

\* The application threads that use the channel.
Threads == 1..NumThreads

NoExecutor == 0
Idle == <<>>
Executors == 1..executors

\* The work items: <<t, k>> is the Transport call (create_run for a post,
\* update_run for a patch) submitted by the k-th call of thread t.
Items ==
    UNION { { <<t, k>> : k \in {j \in 1..calls[t] :
                                  kind[t][j] \in {"post", "patch"}} } :
            t \in Threads }
StatusOf(it) == status[it[1]][it[2]]
Enqueued(it) == StatusOf(it) \in {"queued", "running", "done", "failed"}
Dispatched(it) == StatusOf(it) \in {"running", "done", "failed"}
Attempted(it) == StatusOf(it) \in {"done", "failed"}
\* Enqueued and not yet attempted by Transport.
Pending == {it \in Items : StatusOf(it) \in {"queued", "running"}}

\* _THREAD_POOL_EXECUTOR = None, no thread has called anything yet.
ChanInit ==
    /\ pool = NoExecutor
    /\ executors = 0
    /\ shut = <<>>
    /\ queue = <<>>
    /\ running = <<>>
    /\ pc = [t \in Threads |-> "idle"]
    /\ executor = [t \in Threads |-> NoExecutor]
    /\ calls = [t \in Threads |-> 0]
    /\ kind = [t \in Threads |-> <<>>]
    /\ status = [t \in Threads |-> <<>>]
    /\ pending_at_call = [t \in Threads |-> {}]

SetStatus(t, st) == [status EXCEPT ![t][calls[t]] = st]

\* The call is over: its frame, with the local `executor`, is gone.
Leave(t) ==
    /\ pc' = [pc EXCEPT ![t] = "idle"]
    /\ executor' = [executor EXCEPT ![t] = NoExecutor]
    /\ pending_at_call' = [pending_at_call EXCEPT ![t] = {}]

\* The call raises in the calling thread.
Raise(t) ==
    /\ status' = SetStatus(t, "raised")
    /\ Leave(t)

\* _ensure_thread_pool, line 22: `if _THREAD_POOL_EXECUTOR is None`
EnsureTest(t) ==
    IF pool = NoExecutor THEN "ensure_create" ELSE "ensure_return"

\* post, line 121 / patch, line 131: the call begins and runs the test of
\* _ensure_thread_pool.
BeginSubmit(t, op) ==
    /\ pc[t] = "idle"
    /\ op \in {"post", "patch"}
    /\ calls' = [calls EXCEPT ![t] = @ + 1]
    /\ kind' = [kind EXCEPT ![t] = Append(@, op)]
    /\ status' = [status EXCEPT ![t] = Append(@, "calling")]
    /\ pc' = [pc EXCEPT ![t] = EnsureTest(t)]
    /\ UNCHANGED <<pool, executors, shut, queue, running, executor,
                   pending_at_call, treeVars>>

\* _ensure_thread_pool, line 23:
\* `_THREAD_POOL_EXECUTOR = ThreadPoolExecutor(max_workers=1)`
EnsureCreate(t) ==
    /\ pc[t] = "ensure_create"
    /\ executors < MaxExecutors
    /\ executors' = executors + 1
    /\ shut' = Append(shut, FALSE)
    /\ queue' = Append(queue, <<>>)
    /\ running' = Append(running, Idle)
    /\ pool' = executors + 1
    /\ pc' = [pc EXCEPT ![t] = "ensure_return"]
    /\ UNCHANGED <<executor, calls, kind, status, pending_at_call, treeVars>>

\* _ensure_thread_pool, line 24: `return _THREAD_POOL_EXECUTOR` reads the
\* global again.
EnsureReturn(t) ==
    /\ pc[t] = "ensure_return"
    /\ executor' = [executor EXCEPT ![t] = pool]
    /\ pc' = [pc EXCEPT ![t] = "submit"]
    /\ UNCHANGED <<pool, executors, shut, queue, running, calls, kind, status,
                   pending_at_call, treeVars>>

\* executor.submit (mutant: calls Transport in the calling thread)
EnqueueInline(e, it) ==
    /\ queue' = queue
    /\ status' = [status EXCEPT ![it[1]][it[2]] = "done"]

\* executor.submit, lines 124-127 and 132-139: the work item is put on the
\* executor's queue and the Future returned.
Enqueue(e, it) ==
    /\ queue' = [queue EXCEPT ![e] = Append(@, it)]
    /\ status' = [status EXCEPT ![it[1]][it[2]] = "queued"]

\* post, lines 124-127 / patch, lines 132-139: executor.submit(...).
\* None has no submit (AttributeError); an executor that was shut down
\* refuses new work (RuntimeError).
Submit(t) ==
    /\ pc[t] = "submit"
    /\ IF executor[t] = NoExecutor \/ shut[executor[t]]
       THEN /\ Raise(t)
            /\ UNCHANGED queue
       ELSE /\ Enqueue(executor[t], <<t, calls[t]>>)
            /\ Leave(t)
    /\ UNCHANGED <<pool, executors, shut, running, calls, kind, treeVars>>

\* await_all_runs, line 30 (mutant: no test for None)
AwaitSkipsNever == FALSE

\* await_all_runs, line 30: `if _THREAD_POOL_EXECUTOR is not None` fails
AwaitSkips == pool = NoExecutor

\* await_all_runs, line 30: the call begins and tests
\* `_THREAD_POOL_EXECUTOR is not None`; with no pool it returns.
BeginAwait(t) ==
    /\ pc[t] = "idle"
    /\ calls' = [calls EXCEPT ![t] = @ + 1]
    /\ kind' = [kind EXCEPT ![t] = Append(@, "await")]
    /\ IF AwaitSkips
       THEN /\ status' = [status EXCEPT ![t] = Append(@, "returned")]
            /\ UNCHANGED <<pc, pending_at_call>>
       ELSE /\ status' = [status EXCEPT ![t] = Append(@, "calling")]
            /\ pc' = [pc EXCEPT ![t] = "await_shutdown"]
            /\ pending_at_call' = [pending_at_call EXCEPT ![t] = Pending]
    /\ UNCHANGED <<pool, executors, shut, queue, running, executor, treeVars>>

\* await_all_runs, line 31: `_THREAD_POOL_EXECUTOR.shutdown(...)` reads the
\* global again and marks that executor shut down.
AwaitShutdown(t) ==
    /\ pc[t] = "await_shutdown"
    /\ IF pool = NoExecutor
       THEN /\ Raise(t)
            /\ UNCHANGED shut
       ELSE /\ shut' = [shut EXCEPT ![pool] = TRUE]
            /\ executor' = [executor EXCEPT ![t] = pool]
            /\ pc' = [pc EXCEPT ![t] = "await_join"]
            /\ UNCHANGED <<status, pending_at_call>>
    /\ UNCHANGED <<pool, executors, queue, running, calls, kind, treeVars>>

\* await_all_runs, line 31: shutdown(wait=True) joins the worker, which
\* exits once its queue is empty.
AwaitJoin(t) ==
    /\ pc[t] = "await_join"
    /\ queue[executor[t]] = <<>>
    /\ running[executor[t]] = Idle
    /\ pc' = [pc EXCEPT ![t] = "await_clear"]
    /\ UNCHANGED <<pool, executors, shut, queue, running, executor, calls,
                   kind, status, pending_at_call, treeVars>>

\* await_all_runs, line 32 (mutant: returns without clearing the global)
AwaitNoClear(t) ==
    /\ pc[t] = "await_clear"
    /\ pool' = pool
    /\ status' = SetStatus(t, "returned")
    /\ Leave(t)
    /\ UNCHANGED <<executors, shut, queue, running, calls, kind, treeVars>>

\* await_all_runs, line 32: `_THREAD_POOL_EXECUTOR = None`, and return.
AwaitClear(t) ==
    /\ pc[t] = "await_clear"
    /\ pool' = NoExecutor
    /\ status' = SetStatus(t, "returned")
    /\ Leave(t)
    /\ UNCHANGED <<executors, shut, queue, running, calls, kind, treeVars>>

\* The one worker thread of executor e (max_workers=1, line 23) takes the
\* oldest item of its queue and calls Transport.
WorkerStart(e) ==
    /\ running[e] = Idle
    /\ queue[e] # <<>>
    /\ running' = [running EXCEPT ![e] = Head(queue[e])]
    /\ queue' = [queue EXCEPT ![e] = Tail(@)]
    /\ status' = [status EXCEPT ![Head(queue[e])[1]][Head(queue[e])[2]] =
                     "running"]
    /\ UNCHANGED <<pool, executors, shut, pc, executor, calls, kind,
                   pending_at_call, treeVars>>

\* The Transport call (client.create_run / client.update_run) returns or
\* raises; the outcome goes into the Future and the worker goes on.
WorkerFinish(e, ok) ==
    /\ running[e] # Idle
    /\ status' = [status EXCEPT ![running[e][1]][running[e][2]] =
                     IF ok THEN "done" ELSE "failed"]
    /\ running' = [running EXCEPT ![e] = Idle]
    /\ UNCHANGED <<pool, executors, shut, queue, pc, executor, calls, kind,
                   pending_at_call, treeVars>>

RECURSIVE Sum(_, _)
Sum(f, S) == IF S = {} THEN 0
             ELSE LET x == CHOOSE y \in S : TRUE IN f[x] + Sum(f, S \ {x})

TotalCalls == Sum(calls, Threads)

\* Thread t may begin a call: the budget of calls is not used up, and, the
\* threads being interchangeable, they make their first calls in the order
\* of their numbers (every behaviour is a renaming of such a one).
MayCall(t) ==
    /\ TotalCalls < MaxCalls
    /\ \A u \in Threads : u < t => calls[u] > 0

ChanNext ==
    \/ \E t \in Threads, op \in {"post", "patch"} :
          MayCall(t) /\ BeginSubmit(t, op) /\ UNCHANGED restVars
    \/ \E t \in Threads : EnsureCreate(t) /\ UNCHANGED restVars
    \/ \E t \in Threads : EnsureReturn(t) /\ UNCHANGED restVars
    \/ \E t \in Threads : Submit(t) /\ UNCHANGED restVars
    \/ \E t \in Threads :
          MayCall(t) /\ BeginAwait(t) /\ UNCHANGED restVars
    \/ \E t \in Threads : AwaitShutdown(t) /\ UNCHANGED restVars
    \/ \E t \in Threads : AwaitJoin(t) /\ UNCHANGED restVars
    \/ \E t \in Threads : AwaitClear(t) /\ UNCHANGED restVars
    \/ \E e \in Executors : WorkerStart(e) /\ UNCHANGED restVars
    \/ \E e \in Executors, ok \in BOOLEAN :
          WorkerFinish(e, ok) /\ UNCHANGED restVars

\* The channel is exercised with the tree left at a lone default root.
ChanSpecInit ==
    /\ RootInit(1)
    /\ RootSession(DefaultSessionName, None, DefaultClient)
    /\ ChanInit
    /\ WrapIdle
    /\ PayIdle
    /\ PureIdle

ChanSpec == ChanSpecInit /\ [][ChanNext]_vars

----------------------------------------------------------------------------
\* The run_tree decorator (run_helpers.py:19-92).  One thread, Traced,
\* calls decorated functions, from the top level or from inside the body of
\* a decorated function; the other threads use the channel directly.

MaxWrapCalls == 2       \* calls of decorated functions
MaxOtherCalls == 1      \* calls of post / patch / await_all_runs made by
                        \* the other threads

Traced == 1
Others == Threads \ {Traced}

\* What a call did: nothing yet, returned a value, or raised an exception.
NoResult == [how |-> "none", what |-> None]
Returns(v) == [how |-> "return", what |-> v]
Raises(x) == [how |-> "raise", what |-> x]

\* What the body of a decorated function may do, nested calls apart.
FuncOutcomes == {Returns("result"), Raises("exc")}

\* str(e), line 82, and {"output": function_result}, line 85
Str(x) == IF x = "exc" THEN "err" ELSE x
OutputDict(v) == IF v = "result" THEN "output" ELSE EmptyDict

\* The exception of executor.submit on an executor shut down (RuntimeError)
\* or of the attribute access on None (AttributeError).
SubmitError == "RuntimeError"

\* The session arguments of a top-level decorated call.
WrapRootArgs == { [session_name |-> "session", session_id |-> "session-id"] }

Top == frames[Len(frames)]
At(a) == frames # <<>> /\ Top.at = a
Goto(a) == frames' = [frames EXCEPT ![Len(frames)].at = a]
Return == frames' = SubSeq(frames, 1, Len(frames) - 1)

\* RunTree(...), lines 62-71: a node with no parent and the field defaults
\* of run_trees.py:38-51.
RunTree(name, id) ==
    LET c == Cardinality(runs) + 1
    IN /\ runs' = runs \cup {c}
       /\ parent_run' = parent_run @@ (c :> NoRun)
       /\ child_runs' = child_runs @@ (c :> <<>>)
       /\ execution_order' = execution_order @@ (c :> 1)
       /\ child_execution_order' = child_execution_order @@ (c :> 1)
       /\ end_time' = end_time @@ (c :> None)
       /\ outputs' = outputs @@ (c :> None)
       /\ error' = error @@ (c :> None)
       /\ session_name' = session_name @@ (c :> name)
       /\ session_id' = session_id @@ (c :> id)
       /\ client' = client @@ (c :> DefaultClient)
       /\ UNCHANGED <<ended, chanVars>>

\* A decorated function can be called: the thread is at the top level or
\* in the body of a decorated function.
CanCall ==
    /\ wcalls < MaxWrapCalls
    /\ pc[Traced] = "idle"
    /\ IF frames = <<>> THEN TRUE ELSE Top.at = "func"

\* The RunTree handed over as `run`: the caller's own run, or at the top
\* level the tree's root.
RunArg == IF frames = <<>> THEN 1 ELSE Top.run

\* wrapper entered with child_run = the new node c
Enter(c) ==
    /\ wcalls' = wcalls + 1
    /\ frames' = Append(frames, [run |-> c, at |-> "post"])
    /\ func_result' = func_result @@ (c :> NoResult)
    /\ wrap_result' = wrap_result @@ (c :> NoResult)
    /\ post_call' = post_call @@ (c :> 0)
    /\ patch_call' = patch_call @@ (c :> 0)
    /\ UNCHANGED type_errors

\* wrapper, lines 47-59 (mutant: `run` is checked after create_child)
WrapTypeErrorAfterCreate ==
    /\ CanCall
    /\ wcalls' = wcalls + 1
    /\ type_errors' = type_errors + 1
    /\ create_child(RunArg)
    /\ func_result' = func_result @@ (Cardinality(runs) + 1 :> NoResult)
    /\ wrap_result' = wrap_result @@ (Cardinality(runs) + 1 :> NoResult)
    /\ post_call' = post_call @@ (Cardinality(runs) + 1 :> 0)
    /\ patch_call' = patch_call @@ (Cardinality(runs) + 1 :> 0)
    /\ UNCHANGED frames

\* wrapper, lines 47-50: `run` is passed and is not a RunTree
WrapTypeError ==
    /\ CanCall
    /\ wcalls' = wcalls + 1
    /\ type_errors' = type_errors + 1
    /\ UNCHANGED <<treeVars, chanVars, frames, func_result, wrap_result,
                   post_call, patch_call>>

\* wrapper, lines 47-59: `run` is passed, child_run = run.create_child(...)
WrapCreateChild ==
    /\ CanCall
    /\ create_child(RunArg)
    /\ Enter(Cardinality(runs) + 1)

\* wrapper, lines 60-71: no `run`, child_run = RunTree(...)
WrapCreateRoot ==
    /\ CanCall
    /\ \E a \in WrapRootArgs : RunTree(a.session_name, a.session_id)
    /\ Enter(Cardinality(runs) + 1)

\* wrapper, line 72: child_run.post() begins
WrapPost ==
    /\ At("post")
    /\ BeginSubmit(Traced, "post")
    /\ Goto("posting")
    /\ post_call' = [post_call EXCEPT ![Top.run] = calls[Traced] + 1]
    /\ UNCHANGED <<wcalls, type_errors, func_result, wrap_result, patch_call>>

\* The thread's call of post or patch is over, and it raised.
CallOver == pc[Traced] = "idle"
CallRaised == status[Traced][calls[Traced]] = "raised"

\* wrapper, line 72: child_run.post() raised; nothing catches it
WrapPostRaised ==
    /\ At("posting") /\ CallOver /\ CallRaised
    /\ wrap_result' = [wrap_result EXCEPT ![Top.run] = Raises(SubmitError)]
    /\ Return
    /\ UNCHANGED <<treeVars, chanVars, wcalls, type_errors, func_result,
                   post_call, patch_call>>

\* wrapper, lines 72-80: child_run.post() returned, func is called
WrapFunc ==
    /\ At("posting") /\ CallOver /\ ~CallRaised
    /\ Goto("func")
    /\ UNCHANGED <<treeVars, chanVars, wcalls, type_errors, func_result,
                   wrap_result, post_call, patch_call>>

\* wrapper, lines 73-85: func returns (child_run.end(outputs=...)) or raises
\* (child_run.end(error=str(e)))
WrapEnd(o) ==
    /\ At("func")
    /\ pc[Traced] = "idle"
    /\ func_result' = [func_result EXCEPT ![Top.run] = o]
    /\ IF o.how = "raise"
       THEN end(Top.run, None, Str(o.what), None)
       ELSE end(Top.run, OutputDict(o.what), None, None)
    /\ Goto("patch")
    /\ UNCHANGED <<wcalls, type_errors, wrap_result, post_call, patch_call>>

\* wrapper, lines 83 and 86: child_run.patch() begins
WrapPatch ==
    /\ At("patch")
    /\ BeginSubmit(Traced, "patch")
    /\ Goto("patching")
    /\ patch_call' = [patch_call EXCEPT ![Top.run] = calls[Traced] + 1]
    /\ UNCHANGED <<wcalls, type_errors, func_result, wrap_result, post_call>>

\* wrapper, lines 84 and 87: `raise e`, `return function_result`
WrapperResult(r) == func_result[r]

\* wrapper, lines 83-87: child_run.patch() is over; if it raised, nothing
\* catches it, otherwise the wrapper ends as func did
WrapReturn ==
    /\ At("patching") /\ CallOver
    /\ wrap_result' = [wrap_result EXCEPT ![Top.run] =
                          IF CallRaised THEN Raises(SubmitError)
                          ELSE WrapperResult(Top.run)]
    /\ Return
    /\ UNCHANGED <<treeVars, chanVars, wcalls, type_errors, func_result,
                   post_call, patch_call>>

\* Another thread may begin a call: their budget is not used up, and they
\* make their first calls in the order of their numbers.
OtherMayCall(t) ==
    /\ Sum(calls, Others) < MaxOtherCalls
    /\ \A u \in Others : u < t => calls[u] > 0

WrapNext ==
    \/ WrapTypeError /\ UNCHANGED <<payVars, pureVars>>
    \/ WrapCreateChild /\ UNCHANGED <<payVars, pureVars>>
    \/ WrapCreateRoot /\ UNCHANGED <<payVars, pureVars>>
    \/ WrapPost /\ UNCHANGED <<payVars, pureVars>>
    \/ WrapPostRaised /\ UNCHANGED <<payVars, pureVars>>
    \/ WrapFunc /\ UNCHANGED <<payVars, pureVars>>
    \/ \E o \in FuncOutcomes : WrapEnd(o) /\ UNCHANGED <<payVars, pureVars>>
    \/ WrapPatch /\ UNCHANGED <<payVars, pureVars>>
    \/ WrapReturn /\ UNCHANGED <<payVars, pureVars>>
    \/ \E t \in Others :
          /\ OtherMayCall(t)
          /\ BeginSubmit(t, "post")
          /\ UNCHANGED restVars
    \/ \E t \in Others :
          /\ OtherMayCall(t)
          /\ BeginAwait(t)
          /\ UNCHANGED restVars
    \/ \E t \in Threads : EnsureCreate(t) /\ UNCHANGED restVars
    \/ \E t \in Threads : EnsureReturn(t) /\ UNCHANGED restVars
    \/ \E t \in Threads : Submit(t) /\ UNCHANGED restVars
    \/ \E t \in Others : AwaitShutdown(t) /\ UNCHANGED restVars
    \/ \E t \in Others : AwaitJoin(t) /\ UNCHANGED restVars
    \/ \E t \in Others : AwaitClear(t) /\ UNCHANGED restVars
    \/ \E e \in Executors : WorkerStart(e) /\ UNCHANGED restVars
    \/ \E e \in Executors, ok \in BOOLEAN :
          WorkerFinish(e, ok) /\ UNCHANGED restVars

\* A user-made root RunTree, an idle channel, no decorated call yet.
WrapInit ==
    /\ RootInit(1)
    /\ RootSession(DefaultSessionName, None, DefaultClient)
    /\ ChanInit
    /\ WrapIdle
    /\ PayIdle
    /\ PureIdle

WrapSpec == WrapInit /\ [][WrapNext]_vars

----------------------------------------------------------------------------
\* Stack discipline: the tree as nested run_tree-decorated calls on one
\* thread build it (run_helpers.py:47-59, 81-86), the channel left out.
\* frames holds the calls in progress; each call creates a child of its
\* caller's run and ends it when it is over.

MaxStackRuns == 6       \* nodes of the tree

\* The run of the innermost call in progress, the root at the top level.
Current == IF frames = <<>> THEN 1 ELSE Top.run

\* A decorated function is called with run=Current: run.create_child.
StackOpen ==
    /\ Cardinality(runs) < MaxStackRuns
    /\ create_child(Current)
    /\ frames' = Append(frames, [run |-> Cardinality(runs) + 1, at |-> "func"])
    /\ UNCHANGED <<wcalls, type_errors, func_result, wrap_result, post_call,
                   patch_call, payVars, pureVars>>

\* The innermost call is over: child_run.end.
StackClose ==
    /\ frames # <<>>
    /\ end(Top.run, None, None, None)
    /\ Return
    /\ UNCHANGED <<wcalls, type_errors, func_result, wrap_result, post_call,
                   patch_call, payVars, pureVars>>

StackNext == StackOpen \/ StackClose

\* A root whose counters start at 1.
StackInit ==
    /\ RootInit(1)
    /\ RootSession(DefaultSessionName, None, DefaultClient)
    /\ ChanIdle
    /\ WrapIdle
    /\ PayIdle
    /\ PureIdle

StackSpec == StackInit /\ [][StackNext]_vars

----------------------------------------------------------------------------
\* The keyword arguments of Transport (run_trees.py:119-139).  One thread
\* builds a tree, ends its nodes and posts and patches them; the worker
\* hands the keyword arguments to Transport.

MaxPayRuns == 2         \* nodes of the tree
MaxPayCalls == 1        \* calls of post / patch

\* The fields of RunTree that are modelled (run_trees.py:38-51, and
\* outputs, error and end_time of its base class).
FieldNames == {"id", "parent_run", "child_runs", "session_name",
               "session_id", "execution_order", "child_execution_order",
               "client", "outputs", "error", "end_time"}

\* The fields that may hold None.
OptionalFields == {"session_id", "outputs", "error", "end_time"}

FieldValue(n, k) ==
    CASE k = "id" -> n
      [] k = "parent_run" -> parent_run[n]
      [] k = "child_runs" -> child_runs[n]
      [] k = "session_name" -> session_name[n]
      [] k = "session_id" -> session_id[n]
      [] k = "execution_order" -> execution_order[n]
      [] k = "child_execution_order" -> child_execution_order[n]
      [] k = "client" -> client[n]
      [] k = "outputs" -> outputs[n]
      [] k = "error" -> error[n]
      [] k = "end_time" -> end_time[n]

IsNone(n, k) == k \in OptionalFields /\ FieldValue(n, k) = None

\* Field(..., exclude=True), lines 40, 48 and 49-51 (mutant: the parent
\* is exported)
ExcludedFieldsButParent == {"child_execution_order", "client"}

\* Field(..., exclude=True), lines 40, 48 and 49-51
ExcludedFields == {"parent_run", "child_execution_order", "client"}

\* self.dict(exclude=exclude, exclude_none=True), line 123: a new mapping
\* of the fields, the child runs exported in the same way.
RECURSIVE Dict(_, _)
Dict(n, exclude) ==
    LET keys == {k \in FieldNames \ (ExcludedFields \cup exclude) :
                    ~IsNone(n, k)}
    IN [k \in keys |->
          IF k = "child_runs"
          THEN [i \in 1..Len(child_runs[n]) |-> Dict(child_runs[n][i], {})]
          ELSE FieldValue(n, k)]

\* post, line 122 (mutant: the flag is ignored)
PostExcludeNothing(exclude_child_runs) == {}

\* post, line 122: `{"child_runs"} if exclude_child_runs else None`
PostExclude(exclude_child_runs) ==
    IF exclude_child_runs THEN {"child_runs"} ELSE {}

\* post, lines 122-123: the keyword arguments of create_run
PostKwargs(n, exclude_child_runs) == Dict(n, PostExclude(exclude_child_runs))

\* self.parent_run_id: None (NoRun) for a root, else the parent's id.
ParentRunId(n) == parent_run[n]

\* patch, line 135: `self.outputs.copy() if self.outputs else None`
OutputsCopy(n) == IF outputs[n] \in {None, EmptyDict} THEN None ELSE outputs[n]

\* patch, lines 132-139: the keyword arguments of update_run
PatchKwargs(n) ==
    [run_id |-> n,
     outputs |-> OutputsCopy(n),
     error |-> error[n],
     parent_run_id |-> ParentRunId(n),
     reference_example_id |-> None]

\* The thread is between calls.
PayIdleThread == pc[Traced] = "idle"

PayCreateChild(p) ==
    /\ PayIdleThread
    /\ Cardinality(runs) < MaxPayRuns
    /\ create_child(p)
    /\ UNCHANGED restVars

\* Each node is ended once.
PayEnd(n, a) ==
    /\ PayIdleThread
    /\ n \notin ended
    /\ end(n, a.outputs, a.error, a.end_time)
    /\ UNCHANGED restVars

\* n.post(exclude_child_runs) / n.patch() begins, line 121 / line 131
PayCall(n, op, exclude_child_runs) ==
    /\ calls[Traced] < MaxPayCalls
    /\ BeginSubmit(Traced, op)
    /\ call_arg' = [run |-> n, exclude_child_runs |-> exclude_child_runs]
    /\ UNCHANGED <<payload, delivered, ended_at_dispatch, wrapVars,
                   pureVars>>

\* The keyword arguments of the call in progress.
Kwargs ==
    IF kind[Traced][calls[Traced]] = "post"
    THEN PostKwargs(call_arg.run, call_arg.exclude_child_runs)
    ELSE PatchKwargs(call_arg.run)

\* post, lines 122-127 / patch, lines 132-139: the keyword arguments are
\* built and handed to executor.submit
PaySubmit ==
    /\ Submit(Traced)
    /\ payload' = IF status'[Traced][calls[Traced]] = "queued"
                  THEN payload @@ (<<Traced, calls[Traced]>> :> Kwargs)
                  ELSE payload
    /\ call_arg' = NoArg
    /\ UNCHANGED <<delivered, ended_at_dispatch, wrapVars, pureVars>>

\* The worker's call (mutant: the node is read when the worker runs)
WorkerKwargsByReference(it) ==
    IF kind[it[1]][it[2]] = "post"
    THEN PostKwargs(payload[it].id, "child_runs" \notin DOMAIN payload[it])
    ELSE PatchKwargs(payload[it].run_id)

\* The worker calls fn(**kwargs) with the keyword arguments that
\* executor.submit was given, lines 124-127 and 132-139.
WorkerKwargs(it) == payload[it]

PayWorkerStart(e) ==
    /\ WorkerStart(e)
    /\ delivered' = delivered @@
                        (Head(queue[e]) :> WorkerKwargs(Head(queue[e])))
    /\ ended_at_dispatch' = ended_at_dispatch @@ (Head(queue[e]) :> ended)
    /\ UNCHANGED <<call_arg, payload, wrapVars, pureVars>>

PayNext ==
    \/ \E p \in runs : PayCreateChild(p)
    \/ \E n \in runs, a \in RunEndArgs : PayEnd(n, a)
    \/ \E n \in runs, x \in BOOLEAN : PayCall(n, "post", x)
    \/ \E n \in runs : PayCall(n, "patch", TRUE)
    \/ EnsureCreate(Traced) /\ UNCHANGED restVars
    \/ EnsureReturn(Traced) /\ UNCHANGED restVars
    \/ PaySubmit
    \/ \E e \in Executors : PayWorkerStart(e)
    \/ \E e \in Executors, ok \in BOOLEAN :
          WorkerFinish(e, ok) /\ UNCHANGED restVars

\* A default root, an idle channel.
PayInit ==
    /\ RootInit(1)
    /\ RootSession(DefaultSessionName, None, DefaultClient)
    /\ ChanInit
    /\ WrapIdle
    /\ PayIdle
    /\ PureIdle

PaySpec == PayInit /\ [][PayNext]_vars

----------------------------------------------------------------------------
\* The extra mapping of a run made by the run_tree wrapper
\* (run_helpers.py:27, 43-46, 58, 70; run_trees.py:111).

ExtraKeys == {"a", "b"}
ExtraValues == {1, 2}

\* The mappings from some of the keys to the values, and the `extra`
\* arguments: None or one of them.
ExtraMaps == UNION { [S -> ExtraValues] : S \in SUBSET ExtraKeys }
ExtraArgs == {NoExtra} \cup {Extra(f) : f \in ExtraMaps}

\* Truthiness of an Optional[Dict]: neither None nor empty.
Truthy(x) == x.given /\ DOMAIN x.map # {}

\* `extra or {}`, run_helpers.py:27 and run_trees.py:111
OrEmpty(x) == IF Truthy(x) THEN x.map ELSE [k \in {} |-> 0]

\* {**extra_outer, **extra} (mutant: the decorator's value wins)
MergeOuterWins(outer, inner) ==
    [k \in DOMAIN outer \cup DOMAIN inner |->
        IF k \in DOMAIN outer THEN outer[k] ELSE inner[k]]

\* {**extra_outer, **extra}, run_helpers.py:44
Merge(outer, inner) ==
    [k \in DOMAIN outer \cup DOMAIN inner |->
        IF k \in DOMAIN inner THEN inner[k] ELSE outer[k]]

\* wrapper, lines 43-46: extra_inner
ExtraInner(outer, x) == IF Truthy(x) THEN Merge(outer, x.map) ELSE outer

\* run_tree(run_type, extra=x): line 27
Decorate(x) ==
    /\ ~decorator_extra.given /\ ~run_extra.given
    /\ decorator_extra' = x
    /\ extra_outer' = OrEmpty(x)
    /\ UNCHANGED <<call_extra, run_extra, serVars, suiteVars>>

\* wrapper(..., extra=x), lines 43-71: the run is made by create_child
\* (with_run), whose `extra or {}` is line 111 of run_trees.py, or by
\* RunTree(...)
WrapExtra(x, with_run) ==
    /\ ~run_extra.given
    /\ call_extra' = x
    /\ run_extra' = IF with_run
                    THEN Extra(OrEmpty(Extra(ExtraInner(extra_outer, x))))
                    ELSE Extra(ExtraInner(extra_outer, x))
    /\ UNCHANGED <<decorator_extra, extra_outer, serVars, suiteVars>>

ExtraNext ==
    \/ \E x \in ExtraArgs :
          /\ x # NoExtra
          /\ Decorate(x)
          /\ UNCHANGED <<treeVars, chanVars, wrapVars, payVars>>
    \/ \E x \in ExtraArgs, with_run \in BOOLEAN :
          /\ WrapExtra(x, with_run)
          /\ UNCHANGED <<treeVars, chanVars, wrapVars, payVars>>

\* A function is about to be decorated; the default of `extra` is None.
ExtraInit ==
    /\ RootInit(1)
    /\ RootSession(DefaultSessionName, None, DefaultClient)
    /\ ChanInit
    /\ WrapIdle
    /\ PayIdle
    /\ PureIdle

ExtraSpec == ExtraInit /\ [][ExtraNext]_vars

----------------------------------------------------------------------------
\* The Serializer (spec section 4.1), with the kinds of value of
\* test_serialize_json and test_pydantic_serialize (test_client.py:250-374).

MaxDepth == 2           \* nesting depth of the values given to it

ScalarKinds == {"null", "bool", "number", "str"}
RecordKinds == {"model", "dataclass", "json_tagged", "slotted", "attr_dict",
                "namedtuple"}

\* The shape that the strategies test: a NamedTuple is a tuple with an
\* empty __slots__, a dataclass_json dataclass is a dataclass too, and model
\* objects, dataclasses and enum members have an attribute dictionary.
Caps(v) ==
    CASE v.kind \in ScalarKinds \cup {"list", "dict"} -> {"native"}
      [] v.kind = "namedtuple" -> {"native", "slots", "namedtuple"}
      [] v.kind = "datetime" -> {"datetime"}
      [] v.kind = "enum" -> {"enum", "attr_dict"}
      [] v.kind = "uuid" -> {"uuid", "slots"}
      [] v.kind = "model" -> {"export", "attr_dict"}
      [] v.kind = "dataclass" -> {"dataclass", "attr_dict"}
      [] v.kind = "json_tagged" -> {"dataclass", "json_tagged", "attr_dict"}
      [] v.kind = "slotted" -> {"slots"}
      [] v.kind = "attr_dict" -> {"attr_dict"}
      [] OTHER -> {}

\* The strategies (mutant: the attribute strategies are tried first)
StrategiesAttributesFirst ==
    <<"slots", "attr_dict", "native", "datetime", "enum", "uuid", "export",
      "dataclass", "json_tagged", "namedtuple", "repr">>

\* The strategies, in their priority order (section 4.1, items 1-11).
Strategies ==
    <<"native", "datetime", "enum", "uuid", "export", "dataclass",
      "json_tagged", "slots", "attr_dict", "namedtuple", "repr">>

Matches(strategy, v) == strategy = "repr" \/ strategy \in Caps(v)

\* "tests shape in the order above and stops at first match"
FirstMatch(v) ==
    Strategies[CHOOSE i \in 1..Len(Strategies) :
                  /\ Matches(Strategies[i], v)
                  /\ \A j \in 1..(i - 1) : ~Matches(Strategies[j], v)]

Raised == Scalar("raised", "")
Sequence(vs) == Val("list", "", <<>>, vs, FALSE)
Mapping(ks, vs) == Val("dict", "", ks, vs, FALSE)

\* "Mapping keys are coerced to strings."
CoerceKey(k) == Scalar("str", k.prim)

\* An exception raised while converting an element leaves the conversion
\* of the container.
Propagate(vs, result) ==
    IF \E i \in DOMAIN vs : vs[i] = Raised THEN Raised ELSE result

\* The names a slotted object exposes: a NamedTuple's __slots__ is empty.
SlotNames(v) == IF v.kind = "namedtuple" THEN <<>> ELSE v.keys

\* The default string representation of the object (item 11).
Repr(v) == Scalar("str", "repr")

\* "the failing leaf converts to its string representation" (mutant: the
\* exception is let through)
FallbackNone(v) == Raised

\* "the failing leaf converts to its string representation"
Fallback(v) == Repr(v)

RECURSIVE Serialize(_)
\* The conversion of v by the first strategy that matches its shape.
Convert(v) ==
    LET strategy == FirstMatch(v)
        elements == [i \in DOMAIN v.items |-> Serialize(v.items[i])]
        names == [i \in DOMAIN v.keys |-> CoerceKey(v.keys[i])]
    IN CASE strategy = "native" ->
              IF v.kind \in ScalarKinds THEN v
              ELSE IF v.kind = "dict"
                   THEN Propagate(elements, Mapping(names, elements))
                   ELSE Propagate(elements, Sequence(elements))
         [] strategy \in {"datetime", "uuid", "enum"} ->
              Scalar("str", v.prim)
         [] strategy \in {"export", "dataclass", "json_tagged",
                          "attr_dict"} ->
              IF v.fails THEN Raised
              ELSE Propagate(elements, Mapping(names, elements))
         [] strategy = "slots" ->
              IF v.fails THEN Raised
              ELSE LET slots == SlotNames(v)
                   IN Propagate(elements,
                         Mapping([i \in DOMAIN slots |-> CoerceKey(slots[i])],
                                 [i \in DOMAIN slots |-> elements[i]]))
         [] strategy = "namedtuple" -> Propagate(elements, Sequence(elements))
         [] OTHER -> Repr(v)

Serialize(v) == IF Convert(v) = Raised THEN Fallback(v) ELSE Convert(v)

\* The values given to the Serializer.
ScalarValues ==
    {Null, Scalar("bool", "true"), Scalar("number", "1"),
     Scalar("str", "foo"), Scalar("datetime", "2020-01-01T00:00:00"),
     Scalar("uuid", "uuid"), Scalar("enum", "foo"), Scalar("object", "")}
FieldFoo == Scalar("str", "foo")
FieldBar == Scalar("str", "bar")
DictKeys == {Scalar("str", "k"), Scalar("number", "1")}

\* The containers and records with elements in S: with one element, or
\* with the fields foo = "foo" and bar = 1 of the test's classes.
Composites(S) ==
    {Val(k, "", <<FieldFoo>>, <<a>>, f) :
        k \in RecordKinds, a \in S, f \in BOOLEAN}
    \cup {Val("list", "", <<>>, <<a>>, FALSE) : a \in S}
    \cup {Val("dict", "", <<k>>, <<a>>, FALSE) : k \in DictKeys, a \in S}
    \cup {Val(k, "", <<FieldFoo, FieldBar>>,
              <<Scalar("str", "foo"), Scalar("number", "1")>>, FALSE) :
             k \in RecordKinds}

RECURSIVE Values(_)
Values(depth) ==
    IF depth = 0 THEN ScalarValues
    ELSE Values(depth - 1) \cup Composites(Values(depth - 1))

\* _serialize_json(ser_in)
SerializeCall ==
    /\ ser_out = NotSerialized
    /\ ser_out' = Serialize(ser_in)
    /\ UNCHANGED <<ser_in, extraVars, suiteVars, treeVars, chanVars, wrapVars,
                   payVars>>

SerNext == SerializeCall

SerInit ==
    /\ RootInit(1)
    /\ RootSession(DefaultSessionName, None, DefaultClient)
    /\ ChanInit
    /\ WrapIdle
    /\ PayIdle
    /\ ExtraIdle
    /\ SuiteIdle
    /\ ser_in \in Values(MaxDepth)
    /\ ser_out = NotSerialized

SerSpec == SerInit /\ [][SerNext]_vars

----------------------------------------------------------------------------
\* The test suites of langsmith/_testing.py: threads calling tests
\* decorated with @unit, and the worker of each suite's executor.

NumTestThreads == 2   \* threads that call decorated tests
MaxTests == 2         \* tracked tests begun in all

TestThreads == 1..NumTestThreads
Suites == 1..suites
Tests == 1..Len(test)

\* The decorated test functions.
Funcs == {"f", "g"}

\* _get_test_suite_name(func): the module of the function names the suite.
get_test_suite_name(func) == IF func = "f" THEN "a" ELSE "b"

\* _get_id(func, inputs, suite_id): a uuid5 of the three, so one id for
\* one function called with the same inputs under one suite.
get_id(func) == func

\* repr(x) of the exception of a test, and of a string.
repr(x) == IF x = "exc" THEN "Exc()" ELSE "'" \o x \o "'"

\* self._version
NoVersion == 0
\* example.modified_at, as the server reports it: None or a time
ModifiedAts == {NoVersion, 1, 2}

\* The test the thread is running, its suite name and the suite it got.
TestOf(t) == test[tcall[t]]
NameOf(t) == get_test_suite_name(TestOf(t).func)
SuiteOf(t) == TestOf(t).suite

TestAt(t, where) == tpc[t] = where
TestGoto(t, where) == tpc' = [tpc EXCEPT ![t] = where]

\* The work items of a suite's executor.
SyncItem(c) == [op |-> "sync_example", test |-> c, error |-> None]
ResultItem(c, err) == [op |-> "submit_result", test |-> c, error |-> err]

\* wrapper, line 248; _run_test, line 493; _ensure_example, lines 471-479:
\* thread t calls the decorated test func.
BeginTest(t, func) ==
    /\ TestAt(t, "idle")
    /\ Len(test) < MaxTests
    /\ test' = Append(test, [func |-> func, suite |-> NoSuite,
                             outcome |-> NoResult, result |-> NoResult,
                             submits |-> 0])
    /\ feedback' = Append(feedback, <<>>)
    /\ tcall' = [tcall EXCEPT ![t] = Len(test) + 1]
    /\ TestGoto(t, "from_test")
    /\ UNCHANGED <<instances, lock, suites, dataset, lookups, experiments,
                   suite_shut, suite_queue, version, datasets, examples,
                   synced>>

\* `with cls._lock:` can be entered: _lock is a threading.RLock.
LockAlwaysFree(t) == TRUE

LockFree(t) == lock \in {NoThread, t}

\* from_test, line 376
FromTestAcquire(t) ==
    /\ TestAt(t, "from_test")
    /\ LockFree(t)
    /\ lock' = t
    /\ TestGoto(t, "check")
    /\ UNCHANGED <<instances, suites, dataset, lookups, experiments,
                   suite_shut, suite_queue, version, datasets, examples,
                   feedback, synced, tcall, test>>

\* from_test, lines 377-379: `not cls._instances` is true of None and of
\* the empty mapping.
FromTestCheck(t) ==
    /\ TestAt(t, "check")
    /\ instances' = IF ~instances.given \/ DOMAIN instances.map = {}
                    THEN [given |-> TRUE, map |-> <<>>]
                    ELSE instances
    /\ IF NameOf(t) \in DOMAIN instances.map
       THEN TestGoto(t, "release")
       ELSE TestGoto(t, "get_test_suite")
    /\ UNCHANGED <<lock, suites, dataset, lookups, experiments, suite_shut,
                   suite_queue, version, datasets, examples, feedback,
                   synced, tcall, test>>

\* from_test, line 380, and _get_test_suite, lines 283-295: the dataset is
\* read if the server has it and created if not.
get_test_suite(t) ==
    /\ TestAt(t, "get_test_suite")
    /\ lookups' = [lookups EXCEPT ![NameOf(t)] = @ + 1]
    /\ datasets' = datasets \cup {NameOf(t)}
    /\ TestGoto(t, "start_experiment")
    /\ UNCHANGED <<instances, lock, suites, dataset, experiments,
                   suite_shut, suite_queue, version, examples, feedback,
                   synced, tcall, test>>

\* from_test, line 381, and _start_experiment, lines 298-315
start_experiment(t) ==
    /\ TestAt(t, "start_experiment")
    /\ experiments' = [experiments EXCEPT ![NameOf(t)] = @ + 1]
    /\ TestGoto(t, "construct")
    /\ UNCHANGED <<instances, lock, suites, dataset, lookups, suite_shut,
                   suite_queue, version, datasets, examples, feedback,
                   synced, tcall, test>>

\* from_test, line 382, and __init__, lines 345-356: the new suite has its
\* own executor, and is stored under its name.
FromTestConstruct(t) ==
    /\ TestAt(t, "construct")
    /\ suites' = suites + 1
    /\ dataset' = Append(dataset, NameOf(t))
    /\ suite_shut' = Append(suite_shut, FALSE)
    /\ suite_queue' = Append(suite_queue, <<>>)
    /\ version' = Append(version, NoVersion)
    /\ instances' = [instances EXCEPT
                        !.map = (NameOf(t) :> suites + 1) @@ @]
    /\ TestGoto(t, "release")
    /\ UNCHANGED <<lock, lookups, experiments, datasets, examples, feedback,
                   synced, tcall, test>>

\* from_test: the end of the with block
FromTestRelease(t) ==
    /\ TestAt(t, "release")
    /\ lock' = NoThread
    /\ TestGoto(t, "return")
    /\ UNCHANGED <<instances, suites, dataset, lookups, experiments,
                   suite_shut, suite_queue, version, datasets, examples,
                   feedback, synced, tcall, test>>

\* from_test, line 383, and _ensure_example, line 479
FromTestReturn(t) ==
    /\ TestAt(t, "return")
    /\ test' = [test EXCEPT ![tcall[t]].suite = instances.map[NameOf(t)]]
    /\ TestGoto(t, "sync_example")
    /\ UNCHANGED <<instances, lock, suites, dataset, lookups, experiments,
                   suite_shut, suite_queue, version, datasets, examples,
                   feedback, synced, tcall>>

\* _ensure_example, lines 480-487, and sync_example, lines 413-418:
\* executor.submit raises RuntimeError on an executor that was shut down,
\* and _run_test lets it through (line 493).
sync_example(t) ==
    /\ TestAt(t, "sync_example")
    /\ IF suite_shut[SuiteOf(t)]
       THEN /\ test' = [test EXCEPT
                           ![tcall[t]].result = Raises(SubmitError)]
            /\ TestGoto(t, "idle")
            /\ UNCHANGED suite_queue
       ELSE /\ suite_queue' = [suite_queue EXCEPT
                                  ![SuiteOf(t)] = Append(@, SyncItem(tcall[t]))]
            /\ TestGoto(t, "func")
            /\ UNCHANGED test
    /\ UNCHANGED <<instances, lock, suites, dataset, lookups, experiments,
                   suite_shut, version, datasets, examples, feedback,
                   synced, tcall>>

\* _test, lines 499-509: the test function returns or raises.
TestFunc(t, o) ==
    /\ TestAt(t, "func")
    /\ test' = [test EXCEPT ![tcall[t]].outcome = o]
    /\ TestGoto(t, "submit_result")
    /\ UNCHANGED <<instances, lock, suites, dataset, lookups, experiments,
                   suite_shut, suite_queue, version, datasets, examples,
                   feedback, synced, tcall>>

\* What _test does once submit_result was called: lines 510-512 after the
\* function raised x (a submit that raises does so inside the except
\* block), lines 513-516 after it returned (a submit that raises is
\* logged).
TestResult(o, accepted) ==
    IF o.how = "raise"
    THEN IF accepted THEN Raises(o.what) ELSE Raises(SubmitError)
    ELSE Returns(None)

\* _test, lines 510-516, and submit_result, lines 398-399
submit_result(t) ==
    LET c == tcall[t]
        o == test[c].outcome
        err == IF o.how = "raise" THEN repr(o.what) ELSE None
        accepted == ~suite_shut[SuiteOf(t)]
    IN  /\ TestAt(t, "submit_result")
        /\ suite_queue' =
              IF accepted
              THEN [suite_queue EXCEPT
                       ![SuiteOf(t)] = Append(@, ResultItem(c, err))]
              ELSE suite_queue
        /\ test' = [test EXCEPT
                       ![c].submits = IF accepted THEN @ + 1 ELSE @,
                       ![c].result = TestResult(o, accepted)]
        /\ TestGoto(t, "idle")
        /\ UNCHANGED <<instances, lock, suites, dataset, lookups,
                       experiments, suite_shut, version, datasets, examples,
                       feedback, synced, tcall>>

\* The worker of ThreadPoolExecutor(max_workers=1), line 355, takes the
\* oldest item of the queue.
TakeNewest(q) == [item |-> q[Len(q)], rest |-> SubSeq(q, 1, Len(q) - 1)]

Take(q) == [item |-> Head(q), rest |-> Tail(q)]

\* update_version, lines 389-392
update_version(old, new) ==
    IF old = NoVersion \/ new > old THEN new ELSE old

\* _sync_example, lines 420-446, run by the worker of suite s: the example
\* is read and updated, or created; ok is FALSE when the client raises
\* anything but LangSmithNotFoundError. update_version takes _lock.
WorkSyncExample(s, ok, modified_at) ==
    /\ suite_queue[s] # <<>>
    /\ Take(suite_queue[s]).item.op = "sync_example"
    /\ ~ok => modified_at = NoVersion
    /\ modified_at # NoVersion => lock = NoThread
    /\ suite_queue' = [suite_queue EXCEPT ![s] = Take(@).rest]
    /\ synced' = synced \cup {Take(suite_queue[s]).item.test}
    /\ examples' =
          IF ok
          THEN examples \cup {get_id(test[Take(suite_queue[s]).item.test].func)}
          ELSE examples
    /\ version' =
          IF modified_at # NoVersion
          THEN [version EXCEPT ![s] = update_version(@, modified_at)]
          ELSE version
    /\ UNCHANGED <<instances, lock, suites, dataset, lookups, experiments,
                   suite_shut, datasets, feedback, tpc, tcall, test>>

\* `if error:` of _submit_result
ErrorTruthy(err) == err \notin {None, ""}

\* The feedback _submit_result creates, lines 402-411; after_sync (history)
\* says whether the worker had run _sync_example for the same test.
Feedback(err, after_sync) ==
    IF ErrorTruthy(err)
    THEN [key |-> "pass", score |-> 0, comment |-> "Error: " \o repr(err),
          after_sync |-> after_sync]
    ELSE [key |-> "pass", score |-> 1, comment |-> None,
          after_sync |-> after_sync]

\* _submit_result, lines 401-411, run by the worker of suite s; ok is
\* FALSE when create_feedback raises, which stays in the Future.
WorkSubmitResult(s, ok) ==
    /\ suite_queue[s] # <<>>
    /\ Take(suite_queue[s]).item.op = "submit_result"
    /\ suite_queue' = [suite_queue EXCEPT ![s] = Take(@).rest]
    /\ feedback' =
          IF ok
          THEN LET it == Take(suite_queue[s]).item
               IN  [feedback EXCEPT
                       ![it.test] =
                          Append(@, Feedback(it.error, it.test \in synced))]
          ELSE feedback
    /\ UNCHANGED <<instances, lock, suites, dataset, lookups, experiments,
                   suite_shut, version, datasets, examples, synced, tpc,
                   tcall, test>>

\* _end_tests, lines 329-338, registered with atexit by __init__ (line
\* 356), so run at the exit of the process, the last suite first: wait(),
\* lines 448-449, shuts the executor down; the worker still runs what is
\* queued. Threads that are still running tests then find it shut down.
wait(s) ==
    /\ ~suite_shut[s]
    /\ \A u \in Suites : u > s => suite_shut[u]
    /\ suite_shut' = [suite_shut EXCEPT ![s] = TRUE]
    /\ UNCHANGED <<instances, lock, suites, dataset, lookups, experiments,
                   suite_queue, version, datasets, examples, feedback,
                   synced, tpc, tcall, test>>

nonSuiteVars == <<treeVars, chanVars, wrapVars, payVars, extraVars, serVars>>

SuiteNext ==
    \/ \E t \in TestThreads, func \in Funcs :
          BeginTest(t, func) /\ UNCHANGED nonSuiteVars
    \/ \E t \in TestThreads : FromTestAcquire(t) /\ UNCHANGED nonSuiteVars
    \/ \E t \in TestThreads : FromTestCheck(t) /\ UNCHANGED nonSuiteVars
    \/ \E t \in TestThreads : get_test_suite(t) /\ UNCHANGED nonSuiteVars
    \/ \E t \in TestThreads : start_experiment(t) /\ UNCHANGED nonSuiteVars
    \/ \E t \in TestThreads : FromTestConstruct(t) /\ UNCHANGED nonSuiteVars
    \/ \E t \in TestThreads : FromTestRelease(t) /\ UNCHANGED nonSuiteVars
    \/ \E t \in TestThreads : FromTestReturn(t) /\ UNCHANGED nonSuiteVars
    \/ \E t \in TestThreads : sync_example(t) /\ UNCHANGED nonSuiteVars
    \/ \E t \in TestThreads, o \in FuncOutcomes :
          TestFunc(t, o) /\ UNCHANGED nonSuiteVars
    \/ \E t \in TestThreads : submit_result(t) /\ UNCHANGED nonSuiteVars
    \/ \E s \in Suites, ok \in BOOLEAN, modified_at \in ModifiedAts :
          WorkSyncExample(s, ok, modified_at) /\ UNCHANGED nonSuiteVars
    \/ \E s \in Suites, ok \in BOOLEAN :
          WorkSubmitResult(s, ok) /\ UNCHANGED nonSuiteVars
    \/ \E s \in Suites : wait(s) /\ UNCHANGED nonSuiteVars

\* No test was called yet; the server may have the datasets of earlier
\* sessions.
SuiteInit ==
    /\ RootInit(1)
    /\ RootSession(DefaultSessionName, None, DefaultClient)
    /\ ChanInit
    /\ WrapIdle
    /\ PayIdle
    /\ ExtraIdle
    /\ SerIdle
    /\ instances = NoInstances
    /\ lock = NoThread
    /\ suites = 0
    /\ dataset = <<>>
    /\ lookups = [n \in SuiteNames |-> 0]
    /\ experiments = [n \in SuiteNames |-> 0]
    /\ suite_shut = <<>>
    /\ suite_queue = <<>>
    /\ version = <<>>
    /\ datasets \in SUBSET SuiteNames
    /\ examples = {}
    /\ feedback = <<>>
    /\ synced = {}
    /\ tpc = [t \in TestThreads |-> "idle"]
    /\ tcall = [t \in TestThreads |-> NoTest]
    /\ test = <<>>

SuiteSpec == SuiteInit /\ [][SuiteNext]_vars

----------------------------------------------------------------------------
\* Properties of the tree counters.

IsEnd(n) == \E a \in EndArgs : end(n, a.outputs, a.error, a.end_time)

\* The children of p, as positions in its child list.
Siblings(p) == 1..Len(child_runs[p])

\* C1: create_child on a parent gives the new child
\* execution_order = parent.child_execution_order + 1, with the parent's
\* value at the moment of the call.
C1_ChildOrderIsParentCounterPlusOne ==
    [][\A p \in runs :
          create_child(p) =>
             LET c == Cardinality(runs) + 1
             IN /\ c \in runs'
                /\ execution_order'[c] = child_execution_order[p] + 1]_vars

\* A child whose parent counter was 3 at the call has execution_order 4.
C1_Witness ==
    \E c \in runs :
       /\ parent_run[c] = 1
       /\ child_execution_order[1] = 3
       /\ child_runs[1] = <<c>>
       /\ c \notin ended
       /\ execution_order[c] = 4

\* C2: end on a run that has a parent sets the parent's
\* child_execution_order to the max of the parent's and the run's; end on a
\* run without a parent changes no counter.
C2_EndSetsParentToMax ==
    [][\A n \in runs :
          IsEnd(n) =>
             IF parent_run[n] # NoRun
             THEN child_execution_order'[parent_run[n]] =
                     Max(child_execution_order[parent_run[n]],
                         child_execution_order[n])
             ELSE /\ child_execution_order' = child_execution_order
                  /\ execution_order' = execution_order]_vars

\* A child with counter 5 was ended under a parent whose counter was 4:
\* the parent now has 5.
C2_Witness ==
    \E n \in ended :
       /\ parent_run[n] # NoRun
       /\ execution_order[n] = 5
       /\ child_execution_order[n] = 5
       /\ child_execution_order[parent_run[n]] = 5

\* C3: under any sequence of create_child and end, no run's
\* child_execution_order ever decreases.
C3_CounterNeverDecreases ==
    [][\A n \in runs :
          child_execution_order'[n] >= child_execution_order[n]]_vars

\* An ended child whose counter is smaller than its parent's: the end left
\* the larger parent value in place.
C3_Witness ==
    \E n \in ended :
       /\ parent_run[n] # NoRun
       /\ child_execution_order[n] < child_execution_order[parent_run[n]]

\* C4: one end call writes the counter of the ended run's direct parent
\* only; the grandparent and every other run keep their counters.
C4_EndPropagatesOneLevel ==
    [][\A n \in runs :
          IsEnd(n) =>
             \A m \in runs :
                m # parent_run[n] =>
                   child_execution_order'[m] = child_execution_order[m]]_vars

\* A grandchild was ended and raised its parent's counter above the
\* grandparent's, which still has the old value.
C4_Witness ==
    \E n \in ended :
       /\ parent_run[n] # NoRun
       /\ parent_run[parent_run[n]] # NoRun
       /\ parent_run[n] \notin ended
       /\ child_execution_order[parent_run[n]] = child_execution_order[n]
       /\ child_execution_order[parent_run[parent_run[n]]]
             < child_execution_order[n]

\* C5 as claimed: of two children of one parent, the one created later has
\* a strictly greater execution_order.
C5_LaterSiblingStrictlyGreater ==
    \A p \in runs :
       \A i, j \in Siblings(p) :
          i < j => execution_order[child_runs[p][j]]
                     > execution_order[child_runs[p][i]]

\* C5 amended: a child created under a parent has an execution_order
\* strictly greater than that of every sibling on which end had been
\* called before, and at least that of every other earlier sibling.
C5_LaterSiblingGreaterOnceEarlierEnded ==
    [][\A p \in runs :
          create_child(p) =>
             LET c == Cardinality(runs) + 1
             IN \A i \in Siblings(p) :
                   LET s == child_runs[p][i]
                   IN /\ execution_order'[c] >= execution_order[s]
                      /\ s \in ended =>
                            execution_order'[c] > execution_order[s]]_vars

\* Three children of one parent: the first ended before the second was
\* created (ranks 2 < 3), the second not ended before the third (3 = 3).
C5_Witness ==
    \E p \in runs :
       /\ Len(child_runs[p]) = 3
       /\ child_runs[p][1] \in ended
       /\ child_runs[p][2] \notin ended
       /\ execution_order[child_runs[p][1]]
             < execution_order[child_runs[p][2]]
       /\ execution_order[child_runs[p][2]]
             = execution_order[child_runs[p][3]]

\* C6: a child created later under the same parent never has a smaller
\* execution_order than a sibling created earlier.
C6_SiblingOrderMonotonic ==
    \A p \in runs :
       \A i, j \in Siblings(p) :
          i < j => execution_order[child_runs[p][j]]
                     >= execution_order[child_runs[p][i]]

\* A parent with a later child of greater rank than an earlier one, the
\* earlier having a descendant that raised the counter in between.
C6_Witness ==
    \E p \in runs :
       /\ Len(child_runs[p]) = 2
       /\ child_runs[child_runs[p][1]] # <<>>
       /\ execution_order[child_runs[p][2]]
             > execution_order[child_runs[p][1]] + 1

----------------------------------------------------------------------------
\* Properties of the submission channel.

\* An executor that still holds work, or that still accepts work.
Holds(e) == queue[e] # <<>> \/ running[e] # Idle
Accepts(e) == ~shut[e]

\* C7: the lazily created worker is created at most once under concurrent
\* first use: never do two executors exist that hold or accept
\* announcements.
C7_AtMostOneLiveExecutor ==
    Cardinality({e \in Executors : Holds(e) \/ Accepts(e)}) <= 1

\* Thread t's call number k is a post or patch.
IsSubmitCall(t, k) == k <= calls[t] /\ kind[t][k] \in {"post", "patch"}

\* C8: announcements enqueued by one thread in sequence are dispatched to
\* Transport in that sequence: none is dispatched while an earlier one of
\* the same thread is still waiting in a queue.
C8_PerThreadFifoDispatch ==
    \A t \in Threads :
       \A i, j \in 1..calls[t] :
          (i < j /\ IsSubmitCall(t, i) /\ IsSubmitCall(t, j)
                 /\ Dispatched(<<t, j>>))
             => StatusOf(<<t, i>>) # "queued"

\* Thread t's post or patch call returns (without raising) in this step.
SubmitReturns(t) ==
    /\ pc[t] = "submit"
    /\ pc'[t] = "idle"
    /\ status'[t][calls[t]] # "raised"

\* C9: post and patch return without waiting for the Transport call they
\* enqueue: when the call returns, its announcement is in the queue, its
\* Transport call not begun, whether or not the worker is busy.
C9_SubmitReturnsBeforeTransport ==
    [][\A t \in Threads :
          SubmitReturns(t) =>
             /\ status'[t][calls[t]] = "queued"
             /\ \E e \in Executors :
                   /\ queue'[e] = Append(queue[e], <<t, calls[t]>>)
                   /\ running'[e] = running[e]]_vars

\* A thread has returned from a post and begun its next call while its
\* announcement waits behind a Transport call that is still in progress.
C9_Witness ==
    \E t \in Threads, e \in Executors :
       /\ calls[t] = 2
       /\ kind[t][1] = "post"
       /\ status[t][1] = "queued"
       /\ running[e] # Idle
       /\ running[e][1] # t
       /\ <<t, 1>> = Head(queue[e])

\* Thread t's await_all_runs call returns (without raising) in this step.
AwaitReturns(t) ==
    /\ pc[t] \in {"await_shutdown", "await_join", "await_clear"}
    /\ pc'[t] = "idle"
    /\ status'[t][calls[t]] = "returned"

\* C10: await_all_runs returns only after every announcement enqueued
\* before the call has been attempted by Transport: none of them is still
\* pending when it returns.
C10_AwaitReturnsAfterAllAttempted ==
    [][\A t \in Threads :
          AwaitReturns(t) =>
             \A it \in pending_at_call[t] :
                status'[it[1]][it[2]] \in {"done", "failed"}]_vars

\* A thread is inside await_all_runs on executor e, past its shutdown call.
Draining(e) ==
    \E t \in Threads :
       pc[t] \in {"await_join", "await_clear"} /\ executor[t] = e

\* C11: when await_all_runs returns the singleton is cleared, so a
\* following post or patch re-creates the worker: the executor it creates
\* is a new one that accepts work, and the global never names an executor
\* that was shut down except while an await_all_runs call is still
\* draining that executor.
C11_AwaitClearsAndPostRecreates ==
    /\ [][\A t \in Threads : AwaitReturns(t) => pool' = NoExecutor]_vars
    /\ [][\A t \in Threads :
             EnsureCreate(t) =>
                /\ pool' \notin Executors
                /\ ~shut'[pool']
                /\ queue'[pool'] = <<>>]_vars
    /\ [](pool # NoExecutor /\ shut[pool] => Draining(pool))

\* One thread posted, drained with await_all_runs, and posted again: the
\* second post sits in the queue of a second executor, the first executor
\* being shut down.
C11_Witness ==
    \E t \in Threads :
       /\ kind[t] = <<"post", "await", "post">>
       /\ status[t][2] = "returned"
       /\ status[t][3] = "queued"
       /\ executors = 2
       /\ shut = <<TRUE, FALSE>>
       /\ queue[2] = << <<t, 3>> >>

\* C12: post and patch never raise an exception in the calling thread,
\* under any interleaving with other threads' post, patch and
\* await_all_runs calls.
C12_SubmitNeverRaises ==
    \A t \in Threads :
       \A k \in 1..calls[t] :
          IsSubmitCall(t, k) => status[t][k] # "raised"

\* C13: await_all_runs called when no worker exists (never created, or
\* already drained) is a no-op: it returns normally, leaves the singleton
\* cleared and touches no executor.
C13_AwaitWithoutWorkerIsNoOp ==
    [][\A t \in Threads :
          (BeginAwait(t) /\ pool = NoExecutor) =>
             /\ pc'[t] = "idle"
             /\ status'[t][calls'[t]] = "returned"
             /\ pool' = NoExecutor
             /\ UNCHANGED <<executors, shut, queue, running>>]_vars

\* A thread posted and called await_all_runs twice: both calls returned
\* and the singleton is cleared.
C13_Witness ==
    \E t \in Threads :
       /\ kind[t] = <<"post", "await", "await">>
       /\ status[t][2] = "returned"
       /\ status[t][3] = "returned"
       /\ pool = NoExecutor
       /\ shut = <<TRUE>>

----------------------------------------------------------------------------
\* Properties of the fields of a run.

\* The decorated calls that are over, and the items of their posts and
\* patches.
Finished == {r \in DOMAIN wrap_result : wrap_result[r] # NoResult}
PatchItem(r) == <<Traced, patch_call[r]>>

\* C14: when the function wrapped by run_tree raises an exception, the
\* wrapper records it as the run's error, enqueues the run's patch and
\* re-raises the same exception to the caller.
C14_RaiseIsRecordedPatchedAndReRaised ==
    \A r \in Finished :
       func_result[r].how = "raise" =>
          /\ error[r] = Str(func_result[r].what)
          /\ patch_call[r] # 0
          /\ Enqueued(PatchItem(r))
          /\ wrap_result[r] = func_result[r]

\* C15: no failure of the tracing (a Transport call that fails, a post or
\* patch that fails to enqueue) changes the outcome of a decorated call:
\* the function is called, and the call returns the value or raises the
\* exception that the function did.
C15_TracingNeverChangesOutcome ==
    \A r \in Finished :
       /\ func_result[r] # NoResult
       /\ wrap_result[r] = func_result[r]

\* C16: end called with an error and without outputs leaves the run's
\* outputs as they were, and end called without an error leaves the run's
\* error as it was.
C16_EndKeepsFieldsNotPassed ==
    [][\A n \in runs, a \in RunEndArgs :
          end(n, a.outputs, a.error, a.end_time) =>
             /\ a.outputs = None => outputs'[n] = outputs[n]
             /\ a.error = None => error'[n] = error[n]]_vars

\* A run ended first with outputs and then with an error only (its
\* outputs are still there), or the other way round.
C16_Witness ==
    \E n \in ended :
       /\ outputs[n] = "output"
       /\ error[n] = "err"

\* C17: a run's end_time is unset from its creation until end is called
\* on it.
C17_EndTimeUnsetUntilEnd ==
    \A n \in runs : n \notin ended => end_time[n] = None

\* The number of times run c occurs in the child list of p.
Occurrences(p, c) ==
    Cardinality({i \in 1..Len(child_runs[p]) : child_runs[p][i] = c})

\* C18: every run but the root has exactly one parent and occurs exactly
\* once in exactly one child list, its parent's; the root occurs in none;
\* each child list holds its children in the order of their creation.
C18_SingleParentInsertionOrder ==
    /\ \A c \in runs, p \in runs :
          Occurrences(p, c) = IF parent_run[c] = p THEN 1 ELSE 0
    /\ \A c \in runs : (parent_run[c] = NoRun) = (c = 1)
    /\ \A c \in runs \ {1} : parent_run[c] \in runs
    /\ \A p \in runs :
          \A i, j \in 1..Len(child_runs[p]) :
             i < j => child_runs[p][i] < child_runs[p][j]

\* A root with two children, the second of which has a child of its own.
C18_Witness ==
    /\ Len(child_runs[1]) = 2
    /\ child_runs[child_runs[1][2]] # <<>>

\* C19: a child created by create_child has the session_name and the
\* client of its parent, hence of the root, at every depth.
C19_ChildInheritsSessionNameAndClient ==
    \A n \in runs :
       /\ session_name[n] = session_name[1]
       /\ client[n] = client[1]
       /\ parent_run[n] # NoRun =>
             /\ session_name[n] = session_name[parent_run[n]]
             /\ client[n] = client[parent_run[n]]

\* A grandchild of a root that was constructed with a session name and a
\* client of its own.
C19_Witness ==
    \E n \in runs :
       /\ parent_run[n] # NoRun
       /\ parent_run[parent_run[n]] = 1
       /\ session_name[1] = "session"
       /\ client[1] = "client2"
       /\ session_name[n] = "session"
       /\ client[n] = "client2"

\* C20: every descendant created via create_child carries the session_id
\* of the root of its tree.
C20_DescendantsCarryRootSessionId ==
    \A n \in runs : session_id[n] = session_id[1]

----------------------------------------------------------------------------
\* Properties of the keyword arguments handed to Transport.

PostItems == {it \in DOMAIN payload : kind[it[1]][it[2]] = "post"}
PatchItems == {it \in DOMAIN payload : kind[it[1]][it[2]] = "patch"}

\* The post in progress hands its keyword arguments to executor.submit.
PostSubmits(n, x) ==
    /\ call_arg = [run |-> n, exclude_child_runs |-> x]
    /\ kind[Traced][calls[Traced]] = "post"
    /\ PaySubmit

\* C21 as stated: the keyword arguments of create_run have every field of
\* the node except child_runs.
C21_PostCarriesAllFieldsButChildren ==
    \A it \in PostItems : DOMAIN payload[it] = FieldNames \ {"child_runs"}

\* C21: the keyword arguments of create_run are the fields of the node, at
\* its values when post was called, except parent_run,
\* child_execution_order and client, except the fields that are None, and
\* except child_runs unless post was called with exclude_child_runs=False.
C21_PostCarriesExportedFields ==
    [][\A n \in runs, x \in BOOLEAN :
          PostSubmits(n, x) =>
             LET d == payload'[<<Traced, calls[Traced]>>]
             IN /\ DOMAIN d =
                      {"id", "session_name", "execution_order"}
                         \cup {k \in OptionalFields : FieldValue(n, k) # None}
                         \cup (IF x THEN {} ELSE {"child_runs"})
                /\ \A k \in DOMAIN d \ {"child_runs"} : d[k] = FieldValue(n, k)
                /\ ~x => Len(d.child_runs) = Len(child_runs[n])]_vars

\* A child was posted right after its creation: its empty outputs and its
\* end_time are sent, its error and session_id (None) are not.
C21_Witness ==
    /\ <<Traced, 1>> \in PostItems
    /\ payload[<<Traced, 1>>].id = 2
    /\ DOMAIN payload[<<Traced, 1>>] =
          {"id", "session_name", "execution_order", "outputs", "end_time"}
    /\ payload[<<Traced, 1>>].outputs = EmptyDict

\* The parent node is in the exported mapping d, or in the mapping of one
\* of the child runs in it.
RECURSIVE CarriesParent(_)
CarriesParent(d) ==
    \/ "parent_run" \in DOMAIN d
    \/ /\ "child_runs" \in DOMAIN d
       /\ \E i \in DOMAIN d.child_runs : CarriesParent(d.child_runs[i])

\* C22: no keyword arguments handed to Transport by post, with or without
\* the child runs, or by patch hold the parent node; patch holds its id.
C22_ParentIsNeverExported ==
    /\ \A it \in PostItems : ~CarriesParent(payload[it])
    /\ \A it \in PatchItems :
          DOMAIN payload[it] = {"run_id", "outputs", "error",
                                "parent_run_id", "reference_example_id"}
    /\ \A it \in DOMAIN delivered : ~CarriesParent(delivered[it])

\* A root was posted with its child runs included: the child's mapping
\* is in the keyword arguments Transport got, without the child's parent.
C22_Witness ==
    /\ <<Traced, 1>> \in PostItems
    /\ <<Traced, 1>> \in DOMAIN delivered
    /\ delivered[<<Traced, 1>>].id = 1
    /\ "child_runs" \in DOMAIN delivered[<<Traced, 1>>]
    /\ Len(delivered[<<Traced, 1>>].child_runs) = 1
    /\ delivered[<<Traced, 1>>].child_runs[1].id = 2
    /\ parent_run[2] = 1

\* C29: the keyword arguments that Transport receives for a post or patch
\* are those built from the node when post or patch was called; an end or
\* create_child on the node between the call and the worker's dispatch
\* does not change them.
C29_DeliveredIsSnapshotAtCall ==
    \A it \in DOMAIN delivered : delivered[it] = payload[it]

\* A child was posted, then ended with an error, then the worker called
\* Transport: the call carries no error and the end_time of creation.
C29_Witness ==
    /\ <<Traced, 1>> \in PostItems
    /\ <<Traced, 1>> \in DOMAIN delivered
    /\ delivered[<<Traced, 1>>].id = 2
    /\ 2 \in ended_at_dispatch[<<Traced, 1>>]
    /\ error[2] = "err"
    /\ end_time[2] = "time"
    /\ "error" \notin DOMAIN delivered[<<Traced, 1>>]
    /\ delivered[<<Traced, 1>>].end_time = Now

----------------------------------------------------------------------------
\* Properties of the run_tree wrapper.

\* C23: a decorated call whose `run` argument is not a RunTree raises
\* TypeError before any node is created or attached, any post or patch is
\* begun and the wrapped function is invoked.
C23_TypeErrorBeforeAnyEffect ==
    [][type_errors' # type_errors =>
          /\ type_errors' = type_errors + 1
          /\ UNCHANGED <<treeVars, chanVars, frames, func_result,
                         wrap_result, post_call, patch_call>>]_vars

\* Inside the body of a decorated function a decorated call was made with
\* a `run` that is not a RunTree: the only run is the caller's.
C23_Witness ==
    /\ type_errors = 1
    /\ wcalls = 2
    /\ Len(frames) = 1
    /\ DOMAIN func_result = {2}
    /\ calls[Traced] = 1

\* C24: the extra of a run made by the wrapper has the keys of the
\* decorator-level and of the call-level mapping, with the call-level value
\* on every key the call gives and the decorator-level value on the others;
\* with no call-level extra it is the decorator-level mapping.
C24_ExtraIsMergeCallLevelWins ==
    run_extra.given =>
       LET outer == decorator_extra.map
           inner == call_extra.map
           merged == run_extra.map
       IN /\ DOMAIN merged = DOMAIN outer \cup DOMAIN inner
          /\ \A k \in DOMAIN inner : merged[k] = inner[k]
          /\ \A k \in DOMAIN outer \ DOMAIN inner : merged[k] = outer[k]
          /\ ~call_extra.given => merged = outer

\* Decorator-level {a: 1, b: 1} and call-level {a: 2} gave {a: 2, b: 1}.
C24_Witness ==
    /\ decorator_extra = Extra([k \in {"a", "b"} |-> 1])
    /\ call_extra = Extra([k \in {"a"} |-> 2])
    /\ run_extra.given
    /\ run_extra.map["a"] = 2
    /\ run_extra.map["b"] = 1

----------------------------------------------------------------------------
\* Properties of the Serializer.

\* v is made of null, boolean, number, string, ordered sequence and
\* string-keyed mapping only.
RECURSIVE JsonSafe(_)
JsonSafe(v) ==
    \/ v.kind \in ScalarKinds /\ v.items = <<>>
    \/ /\ v.kind = "list"
       /\ \A i \in DOMAIN v.items : JsonSafe(v.items[i])
    \/ /\ v.kind = "dict"
       /\ DOMAIN v.keys = DOMAIN v.items
       /\ \A i \in DOMAIN v.keys : v.keys[i].kind = "str"
       /\ \A i \in DOMAIN v.items : JsonSafe(v.items[i])

Serialized == ser_out # NotSerialized

\* C25: for every acyclic value built from the supported and unsupported
\* kinds the Serializer does not raise, and what it returns is made of
\* null, boolean, number, string, ordered sequence and string-keyed mapping.
C25_SerializerNeverRaisesAndIsJsonSafe ==
    Serialized => ser_out # Raised /\ JsonSafe(ser_out)

\* A mapping with the key 1 and a model object whose export raises:
\* the result is the mapping from "1" to the object's string form.
C25_Witness ==
    /\ ser_in = Val("dict", "", <<Scalar("number", "1")>>,
                    <<Val("model", "", <<FieldFoo>>, <<Null>>, TRUE)>>, FALSE)
    /\ ser_out = Mapping(<<Scalar("str", "1")>>, <<Scalar("str", "repr")>>)

\* C26: with the strategies tried in priority order and the first match
\* taken, a named tuple gives the ordered sequence of its converted fields,
\* never a mapping, and a dataclass, a slotted object and an
\* attribute-dict object (whose fields can be read) give the mapping from
\* field name to converted value.
C26_NamedTupleIsSequenceRecordsAreMappings ==
    Serialized =>
       /\ ser_in.kind = "namedtuple" =>
             /\ ser_out.kind = "list"
             /\ DOMAIN ser_out.items = DOMAIN ser_in.items
             /\ \A i \in DOMAIN ser_in.items :
                   ser_out.items[i] = Serialize(ser_in.items[i])
       /\ ser_in.kind \in {"dataclass", "slotted", "attr_dict"}
             /\ ~ser_in.fails =>
             /\ ser_out.kind = "dict"
             /\ ser_out.keys = ser_in.keys
             /\ DOMAIN ser_out.items = DOMAIN ser_in.items
             /\ \A i \in DOMAIN ser_in.items :
                   ser_out.items[i] = Serialize(ser_in.items[i])

\* The named tuple (foo="foo", bar=1) of test_serialize_json gave
\* ["foo", 1].
C26_Witness ==
    /\ ser_in = Val("namedtuple", "", <<FieldFoo, FieldBar>>,
                    <<Scalar("str", "foo"), Scalar("number", "1")>>, FALSE)
    /\ ser_out = Sequence(<<Scalar("str", "foo"), Scalar("number", "1")>>)

PostItem(r) == <<Traced, post_call[r]>>
Traces == DOMAIN wrap_result

\* C27: for every run traced by the wrapper, create_run for the run is
\* dispatched to Transport before update_run for the run, under any
\* interleaving of the threads that use the channel.
C27_CreateDispatchedBeforeUpdate ==
    \A r \in Traces :
       (patch_call[r] # 0 /\ Dispatched(PatchItem(r))) =>
          (post_call[r] # 0 /\ Dispatched(PostItem(r)))

\* The nodes of the tree under n in pre-order.
RECURSIVE PreOrder(_), PreOrderAll(_)
PreOrderAll(kids) ==
    IF kids = <<>> THEN <<>>
    ELSE PreOrder(Head(kids)) \o PreOrderAll(Tail(kids))
PreOrder(n) == <<n>> \o PreOrderAll(child_runs[n])

\* C28: under stack discipline (a node is ended after its children and
\* before its next sibling is created) and with the root starting at 1,
\* the execution_order values of the tree are pairwise distinct and each
\* node's execution_order is its position in the order of creation, which
\* is the pre-order of the tree.
C28_StackDisciplineGivesPreOrder ==
    LET order == PreOrder(1)
    IN /\ Len(order) = Cardinality(runs)
       /\ \A i \in DOMAIN order :
             /\ order[i] = i
             /\ execution_order[order[i]] = i
       /\ \A m, n \in runs :
             m # n => execution_order[m] # execution_order[n]

\* Call 2 made the nested calls 3 and 4 and ended, then call 5 was made
\* from the top level: the fifth node has execution_order 5.
C28_Witness ==
    /\ runs = 1..5
    /\ parent_run[3] = 2
    /\ parent_run[4] = 2
    /\ parent_run[5] = 1
    /\ {2, 3, 4} \subseteq ended
    /\ execution_order[4] = 4
    /\ execution_order[5] = 5

\* C30: every decorated call that passes the validation of its arguments
\* enqueues one post for its run before the wrapped function starts and
\* one patch for it after the function finished and end was applied,
\* whether the function returned or raised; no posted run is without a
\* patch when control leaves the wrapper.
C30_OnePostBeforeAndOnePatchAfter ==
    /\ \A r \in Traces :
          func_result[r] # NoResult =>
             post_call[r] # 0 /\ Enqueued(PostItem(r))
    /\ \A r \in Finished :
          /\ post_call[r] # 0 /\ Enqueued(PostItem(r))
          /\ func_result[r] # NoResult
          /\ r \in ended
          /\ patch_call[r] > post_call[r]
          /\ Enqueued(PatchItem(r))

----------------------------------------------------------------------------
\* Properties of the test suites.

\* The suites made for a test-suite name, and the name a test asks for.
SuitesNamed(n) == {s \in Suites : dataset[s] = n}
NameOfTest(c) == get_test_suite_name(test[c].func)

C32_ExampleSyncedBeforeFeedback ==
    \A c \in Tests :
        \A i \in 1..Len(feedback[c]) : feedback[c][i].after_sync

\* Two tests of one suite have their feedback, so the worker went through
\* the items of both.
C32_Witness ==
    \E c, d \in Tests :
        /\ c # d
        /\ test[c].suite = test[d].suite
        /\ feedback[c] # <<>>
        /\ feedback[d] # <<>>
        /\ {c, d} \subseteq synced

\* Tracked tests whose _run_test call is over.
TestsOver == {c \in Tests : test[c].result # NoResult}

\* C33: each tracked test submits one pass feedback for its run id: with
\* score 0 and the error in the comment when the test function raised,
\* and then the same exception is raised to the caller; with score 1 when
\* it returned.
C33_OneFeedbackPerTest ==
    \A c \in TestsOver :
        /\ test[c].submits = 1
        /\ test[c].outcome.how = "raise" => test[c].result = test[c].outcome
        /\ test[c].outcome.how = "return" => test[c].result.how = "return"
        /\ \A i \in 1..Len(feedback[c]) :
              IF test[c].outcome.how = "raise"
              THEN /\ feedback[c][i].score = 0
                   /\ feedback[c][i].comment
                         = "Error: " \o repr(repr(test[c].outcome.what))
              ELSE feedback[c][i].score = 1

====
